---- MODULE Spec2Model ----
(***************************************************************************)
(* Model of parser.py: the call-for-papers scraper that keys the postings  *)
(* of a page, diffs them against the flat-file store cfp.db, rewrites the  *)
(* store and reports what changed.                                         *)
(*                                                                         *)
(* Conventions.  A Python value that may be None is a sequence of length   *)
(* at most one: None is <<>> and the value v is <<v>>.  Texts are strings, *)
(* so "" (the empty text) and None stay different values, as in Python.    *)
(* A datetime produced by strptime with the format %Y-%m-%d is the triple  *)
(* <<year, month, day>> (its time of day is always midnight).  A dict is   *)
(* a sequence of [key, data] entries with distinct keys, in insertion      *)
(* order.  The csv layer is taken to carry a field's text unchanged; what  *)
(* the program itself does to values on the way out (str(), strftime) and  *)
(* on the way in ("" to None, from_value, strptime) is computed.           *)
(***************************************************************************)
EXTENDS Integers, Sequences, FiniteSets, TLC

None == <<>>
Some(x) == <<x>>
Get(o) == o[1]

\* the element of a set of one element: Only({F(v) : v \in {e}}) is F(e), with
\* e evaluated once
Only(S) == CHOOSE y \in S : TRUE

(***************************************************************************)
(* Bounds of the model.                                                    *)
(***************************************************************************)
\* the largest number of containers find_all returns for one page
MaxPosts == 3

(***************************************************************************)
(* Text primitives (str.strip, str.lower, str.split, int parsing).         *)
(***************************************************************************)
CharAt(s, i) == SubSeq(s, i, i)

LStrip[s \in STRING] ==
    IF Len(s) > 0 /\ CharAt(s, 1) = " " THEN LStrip[SubSeq(s, 2, Len(s))] ELSE s

RStrip[s \in STRING] ==
    IF Len(s) > 0 /\ CharAt(s, Len(s)) = " "
    THEN RStrip[SubSeq(s, 1, Len(s) - 1)] ELSE s

\* str.strip() (the only whitespace of the modelled texts is the blank)
Strip(s) == RStrip[LStrip[s]]

UpperLetters == "ABCDEFGHIJKLMNOPQRSTUVWXYZ"
LowerLetters == "abcdefghijklmnopqrstuvwxyz"
Digits == "0123456789"

\* the position of the one-character text c in the text alphabet, or 0
PosIn(c, alphabet) ==
    IF \E i \in 1..Len(alphabet) : CharAt(alphabet, i) = c
    THEN CHOOSE i \in 1..Len(alphabet) : CharAt(alphabet, i) = c
    ELSE 0

LowerChar(c) ==
    IF PosIn(c, UpperLetters) > 0 THEN CharAt(LowerLetters, PosIn(c, UpperLetters))
    ELSE c

\* str.lower()
Lower[s \in STRING] ==
    IF Len(s) = 0 THEN s
    ELSE LowerChar(CharAt(s, 1)) \o Lower[SubSeq(s, 2, Len(s))]

\* the index of the first occurrence of the character c in s, or 0
FirstIndexOf(s, c) ==
    IF \E i \in 1..Len(s) : CharAt(s, i) = c
    THEN CHOOSE i \in 1..Len(s) :
            CharAt(s, i) = c /\ \A j \in 1..(i - 1) : CharAt(s, j) # c
    ELSE 0

IsDigits(s) == Len(s) > 0 /\ \A i \in 1..Len(s) : PosIn(CharAt(s, i), Digits) > 0

\* int(s) for a text of digits
ToInt[s \in STRING] ==
    IF Len(s) = 0 THEN 0
    ELSE 10 * ToInt[SubSeq(s, 1, Len(s) - 1)] + (PosIn(CharAt(s, Len(s)), Digits) - 1)

Pad(n, width) ==
    LET t == ToString(n)
        zeros == "0000"
    IN  IF Len(t) >= width THEN t ELSE SubSeq(zeros, 1, width - Len(t)) \o t

(***************************************************************************)
(* string.printable and remove_non_printable_chars.                        *)
(***************************************************************************)
\* string.printable, without the characters a string of this module cannot
\* hold (the double quote, the backquote, the backslash and the control
\* whitespace), none of which occurs in a modelled text
Printable ==
    Digits \o LowerLetters \o UpperLetters \o "!#$%&'()*+,-./:;<=>?@[]^_{|}~ "

ReplaceNonPrintable[s \in STRING] ==
    IF Len(s) = 0 THEN s
    ELSE (IF PosIn(CharAt(s, 1), Printable) > 0 THEN CharAt(s, 1) ELSE " ")
         \o ReplaceNonPrintable[SubSeq(s, 2, Len(s))]

\* remove_non_printable_chars(text): None for the empty text
remove_non_printable_chars(text) ==
    IF text # "" THEN Some(ReplaceNonPrintable[text]) ELSE None

(***************************************************************************)
(* DbRecordStatus, MediaType and METADATA.                                 *)
(***************************************************************************)
\* (NEW is a reserved word of TLA+, hence the St prefix)
StNEW == "NEW"
StUNMODIFIED == "UNMODIFIED"
StUPDATED == "UPDATED"
StDELETED == "DELETED"
DbRecordStatus == {StNEW, StUNMODIFIED, StUPDATED, StDELETED}

MAGAZINE == "Magazine"
JOURNAL == "Journal"
CONFERENCE == "Conference"
UNKNOWN == "Unknown"

\* MediaType.from_value(value), value a text or None
from_value(value) ==
    IF value # None /\ Get(value) # ""
    THEN LET v == Lower[Get(value)]
         IN  CASE v = "magazine" -> MAGAZINE
               [] v = "journal" -> JOURNAL
               [] v = "conference" -> CONFERENCE
               [] OTHER -> UNKNOWN
    ELSE UNKNOWN

TYPE_FIELD_NAME == "Type"
NAME_FIELD_NAME == "Name"
TITLE_FIELD_NAME == "Title"
DEADLINE_FIELD_NAME == "Deadline"

\* METADATA["DB_HEADER"]: the columns of the store, in order
DB_HEADER ==
    <<TYPE_FIELD_NAME, NAME_FIELD_NAME, TITLE_FIELD_NAME, "Summary",
      DEADLINE_FIELD_NAME, "TitleLink", "ActionsLink">>

\* METADATA["DB_RECORDS_ORDER"]
DB_RECORDS_ORDER == <<StNEW, StUPDATED, StUNMODIFIED>>

(***************************************************************************)
(* datetime.strptime(x, "%Y-%m-%d") and datetime.strftime("%Y-%m-%d").     *)
(***************************************************************************)
IsLeap(y) == (y % 4 = 0 /\ y % 100 # 0) \/ y % 400 = 0

DaysIn(y, m) ==
    CASE m \in {4, 6, 9, 11} -> 30
      [] m = 2 -> (IF IsLeap(y) THEN 29 ELSE 28)
      [] OTHER -> 31

\* the three parts of a text around its first two dashes, or <<>>
DashParts(x) ==
    LET i == FirstIndexOf(x, "-")
        rest == SubSeq(x, i + 1, Len(x))
        j == FirstIndexOf(rest, "-")
    IN  IF i = 0 \/ j = 0 THEN <<>>
        ELSE <<SubSeq(x, 1, i - 1), SubSeq(rest, 1, j - 1),
               SubSeq(rest, j + 1, Len(rest))>>

\* whether strptime accepts the text (otherwise it raises ValueError)
MatchesDeadlineFormat(x) ==
    LET p == DashParts(x)
    IN  /\ p # <<>>
        /\ Len(p[1]) = 4 /\ IsDigits(p[1]) /\ ToInt[p[1]] >= 1
        /\ Len(p[2]) \in {1, 2} /\ IsDigits(p[2]) /\ ToInt[p[2]] \in 1..12
        /\ Len(p[3]) \in {1, 2} /\ IsDigits(p[3])
        /\ ToInt[p[3]] \in 1..DaysIn(ToInt[p[1]], ToInt[p[2]])

\* the datetime strptime returns for an accepted text
Strptime(x) ==
    LET p == DashParts(x) IN <<ToInt[p[1]], ToInt[p[2]], ToInt[p[3]]>>

\* datetime.strftime with the same format
Strftime(d) == Pad(d[1], 4) \o "-" \o Pad(d[2], 2) \o "-" \o Pad(d[3], 2)

\* the order of datetime values
DateLess(a, b) ==
    \/ a[1] < b[1]
    \/ a[1] = b[1] /\ a[2] < b[2]
    \/ a[1] = b[1] /\ a[2] = b[2] /\ a[3] < b[3]

(***************************************************************************)
(* DeserializeValueProcessor.  MEDIA_DEADLINE raises ValueError on a text  *)
(* strptime rejects: MEDIA_DEADLINE_raises says when, MEDIA_DEADLINE gives *)
(* the value otherwise.                                                    *)
(***************************************************************************)
MEDIA_TYPE(x) == IF x # None /\ Get(x) # "" THEN from_value(x) ELSE UNKNOWN
MEDIA_NAME(x) == x
MEDIA_DEADLINE_raises(x) ==
    x # None /\ Get(x) # "" /\ ~MatchesDeadlineFormat(Get(x))
MEDIA_DEADLINE(x) == IF x # None /\ Get(x) # "" THEN Strptime(Get(x)) ELSE None
MEDIA_TITLE_LINK(x) == x
\* x is the text of the title's <a> element
MEDIA_TITLE_TEXT(x) == IF x # "" THEN Some(Strip(x)) ELSE None
\* x is the text of the summary's <p> element ("" when there is none)
MEDIA_SUMMARY(x) == IF x # "" THEN remove_non_printable_chars(Strip(x)) ELSE None
MEDIA_ACTIONS_LINK(x) == x

(***************************************************************************)
(* dict: a sequence of [key, data] entries with distinct keys, in          *)
(* insertion order.  d[k] = v keeps the position of a key already there.   *)
(***************************************************************************)
DictKeys(d) == {d[i].key : i \in 1..Len(d)}
DictGet(d, k) == d[CHOOSE i \in 1..Len(d) : d[i].key = k].data
DictSet(d, k, v) ==
    IF k \in DictKeys(d)
    THEN [i \in 1..Len(d) |-> IF d[i].key = k THEN [key |-> k, data |-> v] ELSE d[i]]
    ELSE Append(d, [key |-> k, data |-> v])
\* list(d.values())
DictValues(d) == [i \in 1..Len(d) |-> d[i].data]

(***************************************************************************)
(* The diagnostics the program prints, by the statement that prints them.  *)
(***************************************************************************)
LinkMismatch == "Title link does not match actions link"
KeyFailure == "Unable to create composite key"
ParseException == "Exception during parsing"
MatchException == "Exception during matching"
SkipUpdate == "Skipping DB file update"
UpdateException == "Exception during updating"
StatusCount == "There are items with status"
Added == "Added rows"
Deleted == "Deleted rows"

(***************************************************************************)
(* The extraction helpers.                                                 *)
(***************************************************************************)
\* get_tag_attribute_or_default(tag, attribute_name, default_value): attr is
\* None when the tag has no such attribute
get_tag_attribute_or_default(attr, default_value) ==
    IF attr # None /\ Get(attr) # "" THEN attr ELSE default_value

\* try_extract_name_from_title(title): what follows the first colon, stripped
try_extract_name_from_title(title) ==
    IF title # None /\ Get(title) # ""
    THEN LET t == Get(title)
             i == FirstIndexOf(t, ":")
         IN  IF i > 0 THEN Some(Strip(SubSeq(t, i + 1, Len(t)))) ELSE None
    ELSE None

create_media_data_dict(media_type, name, title, summary, deadline, title_link, actions_link) ==
    [Type |-> media_type, Name |-> name, Title |-> title, Summary |-> summary,
     Deadline |-> deadline, TitleLink |-> title_link, ActionsLink |-> actions_link]

\* create_composite_key(Type=.., Name=.., Title=..): None when a part is None
create_composite_key(type, name, title) ==
    IF type = None \/ name = None \/ title = None THEN None
    ELSE Some(Get(type) \o Get(name) \o Get(title))

\* process_db_row_data(data)
process_db_row_data(data) ==
    [data EXCEPT !.Type = MEDIA_TYPE(data.Type),
                 !.Deadline = MEDIA_DEADLINE(data.Deadline)]

(***************************************************************************)
(* parse_ieee_cs_cfp_information.  A container is what the page holds for  *)
(* one posting: the three data- attributes (None when missing), the text   *)
(* and href of the title link, the text of the summary paragraph and the   *)
(* href of the actions link.                                               *)
(***************************************************************************)
ContainerName(c) ==
    LET name == MEDIA_NAME(get_tag_attribute_or_default(c.publication, None))
    IN  IF name = None
        THEN MEDIA_NAME(try_extract_name_from_title(MEDIA_TITLE_TEXT(c.titleText)))
        ELSE name

\* the data dict built for one container (lines 145-164)
ContainerData(c) ==
    create_media_data_dict(
        MEDIA_TYPE(get_tag_attribute_or_default(c.type, None)),
        ContainerName(c),
        MEDIA_TITLE_TEXT(c.titleText),
        MEDIA_SUMMARY(c.summaryText),
        MEDIA_DEADLINE(get_tag_attribute_or_default(c.deadline, None)),
        MEDIA_TITLE_LINK(get_tag_attribute_or_default(c.href, None)),
        MEDIA_ACTIONS_LINK(get_tag_attribute_or_default(c.actionsHref, None)))

\* the key computed for one container (lines 165-166)
ContainerKey(c) ==
    create_composite_key(
        Some(MEDIA_TYPE(get_tag_attribute_or_default(c.type, None))),
        ContainerName(c),
        MEDIA_TITLE_TEXT(c.titleText))

\* whether the loop body raises on this container (strptime's ValueError)
ContainerRaises(c) ==
    MEDIA_DEADLINE_raises(get_tag_attribute_or_default(c.deadline, None))

\* what create_media_data_dict prints for the data it builds
DataPrinted(data) ==
    IF data.TitleLink # data.ActionsLink THEN {LinkMismatch} ELSE {}

\* what create_composite_key prints for the key it returns
KeyPrinted(key) == IF key = None THEN {KeyFailure} ELSE {}

\* one pass of the loop body (lines 145-166): whether it raises, the data and
\* the key it computes, and what it prints
ContainerStep(c) ==
    IF ContainerRaises(c)
    THEN [raises |-> TRUE, key |-> None, data |-> None, printed |-> {}]
    ELSE Only({
           Only({[raises |-> FALSE, key |-> key, data |-> data,
                  printed |-> DataPrinted(data) \cup KeyPrinted(key)] :
                 key \in {create_composite_key(Some(data.Type), data.Name,
                                               data.Title)}}) :
           data \in {ContainerData(c)}})

\* result[key] = data (line 167): the key is used whatever it is
StoreParsed(result, key, data) == DictSet(result, key, data)

RECURSIVE ParseFrom(_, _, _, _)
\* the loop over the containers from the i-th on, result and printed being the
\* dict filled and the lines printed so far; actual is None when the except
\* clause is reached, as the function then returns nothing
ParseFrom(containers, i, result, printed) ==
    IF i > Len(containers) THEN [actual |-> Some(result), printed |-> printed]
    ELSE Only({
           IF step.raises
           THEN [actual |-> None, printed |-> printed \cup {ParseException}]
           ELSE Only({ParseFrom(containers, i + 1, stored, out) :
                      stored \in {StoreParsed(result, step.key, step.data)},
                      out \in {printed \cup step.printed}}) :
           step \in {ContainerStep(containers[i])}})

\* a call of parse_ieee_cs_cfp_information: what it returns and what it prints
ParseRun(page_data) == ParseFrom(page_data, 1, <<>>, {})

parse_ieee_cs_cfp_information(page_data) == ParseRun(page_data).actual

(***************************************************************************)
(* The pages the runs are given.  Catalog lists, in document order, the    *)
(* containers a page may hold; a page holds at most MaxPosts of them.      *)
(***************************************************************************)
Container(type, publication, deadline, titleText, summaryText, href, actionsHref) ==
    [type |-> type, publication |-> publication, deadline |-> deadline,
     titleText |-> titleText, summaryText |-> summaryText, href |-> href,
     actionsHref |-> actionsHref]

Catalog ==
    << \* posting A of a journal, first with one deadline, then with a later one
       Container(Some("Journal"), Some("TC"), Some("2025-01-01"),
                 "Issue A", " on A ", Some("u/a"), Some("u/a")),
       Container(Some("Journal"), Some("TC"), Some("2025-05-01"),
                 "Issue A", " on A ", Some("u/a"), Some("u/a")),
       \* posting B: the type in lower case, the name taken from the title, no
       \* deadline announced
       Container(Some("magazine"), None, None,
                 " CFP: Computer ", "on B", Some("u/b"), Some("u/b")),
       \* a title ending in its colon: the name derived from it is the empty text
       Container(Some("Conference"), None, None,
                 "Workshop:", "", Some("u/d"), Some("u/d")),
       \* no publication and no colon in the title: no name
       Container(Some("Journal"), None, Some("2025-05-01"),
                 "Untitled venue", "on E", Some("u/e"), Some("u/x")),
       \* no type, and a deadline that is not a date
       Container(None, Some("TC"), Some("TBD"),
                 "Issue F", "on F", Some("u/f"), Some("u/f")) >>

\* the k-th smallest element of a set of numbers
KthOf(I, k) == CHOOSE i \in I : Cardinality({j \in I : j <= i}) = k

\* the containers of Catalog at the positions I, in document order
PageOf(I) == [k \in 1..Cardinality(I) |-> Catalog[KthOf(I, k)]]

Pages == {PageOf(I) : I \in {J \in SUBSET (1..Len(Catalog)) : Cardinality(J) <= MaxPosts}}

(***************************************************************************)
(* The store.  A file is None (no cfp.db) or the sequence of its rows, the *)
(* header row included; a row gives the text of each column.               *)
(***************************************************************************)
\* DictWriter.writeheader(): each column holds its own name
HeaderRow ==
    [Type |-> DB_HEADER[1], Name |-> DB_HEADER[2], Title |-> DB_HEADER[3],
     Summary |-> DB_HEADER[4], Deadline |-> DB_HEADER[5],
     TitleLink |-> DB_HEADER[6], ActionsLink |-> DB_HEADER[7]]

\* the text csv writes for a value that is None or a text
FieldText(v) == IF v = None THEN "" ELSE Get(v)

\* lines 247-250: strftime on a deadline that is set, then writer.writerow
WriteRow(cfp_record) ==
    [Type |-> cfp_record.Type,
     Name |-> FieldText(cfp_record.Name),
     Title |-> FieldText(cfp_record.Title),
     Summary |-> FieldText(cfp_record.Summary),
     Deadline |-> IF cfp_record.Deadline # None
                  THEN Strftime(cfp_record.Deadline) ELSE "",
     TitleLink |-> FieldText(cfp_record.TitleLink),
     ActionsLink |-> FieldText(cfp_record.ActionsLink)]

\* lines 196-198: value if value else None, for every column
DeserializeValue(value) == IF value # "" THEN Some(value) ELSE None

DeserializeRow(row) ==
    [Type |-> DeserializeValue(row.Type), Name |-> DeserializeValue(row.Name),
     Title |-> DeserializeValue(row.Title),
     Summary |-> DeserializeValue(row.Summary),
     Deadline |-> DeserializeValue(row.Deadline),
     TitleLink |-> DeserializeValue(row.TitleLink),
     ActionsLink |-> DeserializeValue(row.ActionsLink)]

\* lines 199-201: the key of a loaded row
RowKey(row) ==
    Only({create_composite_key(d.Type, d.Name, d.Title) : d \in {DeserializeRow(row)}})

\* one pass of the loop body (lines 196-202): the key, whether
\* process_db_row_data raises (strptime's ValueError), the record kept, and
\* what create_composite_key prints
RowStep(row) ==
    Only({
      Only({[key |-> key, raises |-> raises,
             data |-> IF raises THEN None ELSE process_db_row_data(d),
             printed |-> KeyPrinted(key)] :
            key \in {create_composite_key(d.Type, d.Name, d.Title)},
            raises \in {MEDIA_DEADLINE_raises(d.Deadline)}}) :
      d \in {DeserializeRow(row)}})

RECURSIVE LoadFrom(_, _, _, _)
\* the loop over the rows from the i-th on, db_data and printed being the
\* dict filled and the lines printed so far; db_data is None when a row raises
LoadFrom(rows, i, db_data, printed) ==
    IF i > Len(rows) THEN [db_data |-> Some(db_data), printed |-> printed]
    ELSE Only({
           IF step.raises
           THEN [db_data |-> None, printed |-> printed \cup step.printed]
           ELSE Only({LoadFrom(rows, i + 1, stored, out) :
                      stored \in {DictSet(db_data, step.key, step.data)},
                      out \in {printed \cup step.printed}}) :
           step \in {RowStep(rows[i])}})

\* lines 190-202 on the rows of the file: next(reader) raises StopIteration on
\* a file with no row
LoadDb(rows) ==
    IF Len(rows) = 0 THEN [db_data |-> None, printed |-> {}]
    ELSE LoadFrom(rows, 2, <<>>, {})

\* the same for the store: nothing is read when there is no file
LoadStore(file) ==
    IF file = None THEN [db_data |-> None, printed |-> {}] ELSE LoadDb(Get(file))

\* the prior snapshot a run works with: None when there is no file or loading
\* it raised
PriorOf(file) == LoadStore(file).db_data

(***************************************************************************)
(* match_ieee_cs_cfp_information_with_db.                                  *)
(***************************************************************************)
new_keys(web_data, db_data) == DictKeys(web_data) \ DictKeys(db_data)
deleted_keys(web_data, db_data) == DictKeys(db_data) \ DictKeys(web_data)
intersected_keys(web_data, db_data) == DictKeys(db_data) \cap DictKeys(web_data)
updated_keys(web_data, db_data) ==
    {key \in intersected_keys(web_data, db_data) :
        DictGet(web_data, key) # DictGet(db_data, key)}
unmodified_keys(web_data, db_data) ==
    intersected_keys(web_data, db_data) \ updated_keys(web_data, db_data)

\* the orders in which a set can be iterated
Orders(S) ==
    Only({{o \in [1..Cardinality(T) -> T] :
              \A i, j \in 1..Cardinality(T) : o[i] = o[j] => i = j} :
          T \in {S}})

\* [d[key] for key in keys], keys iterated in the order it
Listed(d, it) == [i \in 1..Len(it) |-> DictGet(d, it[i])]

NoIteration == [new |-> <<>>, deleted |-> <<>>, updated |-> <<>>, unmodified |-> <<>>]

\* the iteration orders of the four key sets of lines 208-215
IterationOrders(web_data, db_data) ==
    [new : Orders(new_keys(web_data, db_data)),
     deleted : Orders(deleted_keys(web_data, db_data)),
     updated : Orders(updated_keys(web_data, db_data)),
     unmodified : Orders(unmodified_keys(web_data, db_data))]

\* a variant of line 214 that lists the stored records: [db_data[key] ...]
UpdatedSourceStored(web_data, db_data) == db_data

\* the source of an UPDATED record (line 214)
UpdatedSource(web_data, db_data) == web_data

\* lines 203-216: the four lists, the key sets iterated in the orders it
Classify(web_data, db_data, it) ==
    [status \in DbRecordStatus |->
        CASE status = StNEW -> Some(Listed(web_data, it.new))
          [] status = StDELETED -> Some(Listed(db_data, it.deleted))
          [] status = StUPDATED ->
                Some(Listed(UpdatedSource(web_data, db_data), it.updated))
          [] status = StUNMODIFIED -> Some(Listed(db_data, it.unmodified))]

\* lines 186-188: no store file
AllNew(web_data) ==
    [status \in DbRecordStatus |->
        IF status = StNEW THEN Some(DictValues(web_data)) ELSE None]

\* the function's result, None when the except clause is reached.  web_data
\* is None (parse returned nothing) or Some(dict); file is the store and prior
\* what lines 190-202 loaded from it (None: loading raised)
match_ieee_cs_cfp_information_with_db(web_data, file, prior, it) ==
    IF file = None
    THEN IF web_data = None THEN None ELSE Some(AllNew(Get(web_data)))
    ELSE IF prior = None \/ web_data = None THEN None
    ELSE Some(Classify(Get(web_data), Get(prior), it))

\* the iteration orders the call can meet
MatchOrders(web_data, file, prior) ==
    IF file = None \/ web_data = None \/ prior = None THEN {NoIteration}
    ELSE IterationOrders(Get(web_data), Get(prior))

\* what the function prints: the lines of the loading loop, and the except
\* clause's when results is None
MatchPrinted(results, loaded_printed) ==
    loaded_printed \cup (IF results = None THEN {MatchException} ELSE {})

(***************************************************************************)
(* only_unmodified_records and update_db_info.                             *)
(***************************************************************************)
\* the truth value of a bucket: None and the empty list are false
Truthy(bucket) == bucket # None /\ Len(Get(bucket)) > 0

only_unmodified_records(records) ==
    /\ Truthy(records[StUNMODIFIED])
    /\ ~Truthy(records[StUPDATED])
    /\ ~Truthy(records[StDELETED])
    /\ ~Truthy(records[StNEW])

\* a variant of the sort key that puts the records without a deadline first
SortKeyAbsentFirst(record) == <<record.Deadline # None, record.Deadline>>

\* the sort key of line 244-245
SortKey(record) == <<record.Deadline = None, record.Deadline>>

\* the order of two such tuples: False before True, then the datetimes
KeyLess(a, b) ==
    IF a[1] # b[1] THEN b[1]
    ELSE IF a[2] = None \/ b[2] = None THEN FALSE
    ELSE DateLess(a[2], b[2])

\* x put after every element of the sorted s that is not greater than it
InsertSorted(s, x) ==
    Only({SubSeq(s, 1, p) \o <<x>> \o SubSeq(s, p + 1, Len(s)) :
          p \in {Cardinality({i \in 1..Len(s) :
                                 ~KeyLess(SortKey(x), SortKey(s[i]))})}})

RECURSIVE SortedPrefix(_, _)
\* the first n records, sorted
SortedPrefix(records, n) ==
    IF n = 0 THEN <<>>
    ELSE Only({InsertSorted(s, records[n]) : s \in {SortedPrefix(records, n - 1)}})

\* sorted(records, key=...): stable
SortedByDeadline(records) == SortedPrefix(records, Len(records))

\* the records of one status in the order they are written, with the status
GroupToWrite(records, record_status) ==
    IF Truthy(records[record_status])
    THEN Only({[i \in 1..Len(ordered_records) |->
                   [status |-> record_status, record |-> ordered_records[i]]] :
               ordered_records \in {SortedByDeadline(Get(records[record_status]))}})
    ELSE <<>>

RECURSIVE GroupsFrom(_, _, _)
GroupsFrom(records, db_record_status, i) ==
    IF i > Len(db_record_status) THEN <<>>
    ELSE GroupToWrite(records, db_record_status[i])
         \o GroupsFrom(records, db_record_status, i + 1)

\* lines 242-250: the writerow calls of a write, in order
RecordsToWrite(records) == GroupsFrom(records, DB_RECORDS_ORDER, 1)

\* The write of lines 237-250 is the I/O steps open, writeheader and one
\* writerow per record.  failAt = 0: every step succeeds; failAt = k > 0: the
\* k-th step raises.  open(.., "w") truncates the file as it succeeds, and the
\* except clause of line 254 restores nothing.
WriteSteps(rows) == 2 + Len(rows)

\* the writerow calls that completed, rows being RecordsToWrite(records)
RowsWritten(rows, failAt) ==
    IF failAt = 0 THEN rows
    ELSE IF failAt <= 2 THEN <<>>
    ELSE SubSeq(rows, 1, failAt - 3)

\* the store after the write
FileAfterWrite(file, rows, failAt) ==
    IF failAt = 1 THEN file
    ELSE IF failAt = 2 THEN Some(<<>>)
    ELSE Only({Some(<<HeaderRow>>
                    \o [i \in 1..Len(done) |-> WriteRow(done[i].record)]) :
               done \in {RowsWritten(rows, failAt)}})

\* the store after update_db_info(records)
update_db_info(file, records, failAt) ==
    IF only_unmodified_records(records) THEN file
    ELSE FileAfterWrite(file, RecordsToWrite(records), failAt)

\* what update_db_info prints, skip being only_unmodified_records(records)
UpdatePrinted(skip, failAt) ==
    IF skip THEN {SkipUpdate}
    ELSE IF failAt # 0 THEN {UpdateException} ELSE {}

\* lines 271-277 of main: the counts and the two lists
ReportPrinted(records) ==
    (IF \E status \in DbRecordStatus : Truthy(records[status]) THEN {StatusCount} ELSE {})
    \cup (IF Truthy(records[StNEW]) THEN {Added} ELSE {})
    \cup (IF Truthy(records[StDELETED]) THEN {Deleted} ELSE {})

(***************************************************************************)
(* The state: the store file, and what the current run of main has read,   *)
(* computed and printed (reset when the process exits).                    *)
(***************************************************************************)
VARIABLES
    dbFile,            \* cfp.db: None or its rows
    pc,                \* "idle" (no process), "exited" or "crashed" (main ended)
    page,              \* the containers of the page the run fetched
    web_data,          \* actual_ieee_cs_cfp_information
    db_data,           \* the prior snapshot as loaded (None: no file, or not loaded)
    matching_results,  \* matching_results
    update,            \* update_db_info: "none" (not called), "skipped", "written", "failed"
    written,           \* the completed writerow calls, in order, with their status
    prevFile,          \* the store when the run started
    diag               \* what the run printed

vars == <<dbFile, pc, page, web_data, db_data, matching_results, update,
          written, prevFile, diag>>

Traceback == "Traceback: AttributeError"

Init ==
    /\ dbFile = None
    /\ pc = "idle"
    /\ page = <<>>
    /\ web_data = None
    /\ db_data = None
    /\ matching_results = None
    /\ update = "none"
    /\ written = <<>>
    /\ prevFile = None
    /\ diag = {}

\* main() from update_db_info on, records being the results of the matching
\* and printed what the run printed before
Persist(records, failAt, printed) ==
    \E skip \in {only_unmodified_records(records)} :
    \E rows \in {RecordsToWrite(records)} :
        /\ failAt <= (IF skip THEN 0 ELSE WriteSteps(rows))
        /\ pc' = "exited"
        /\ dbFile' = IF skip THEN dbFile ELSE FileAfterWrite(dbFile, rows, failAt)
        /\ update' = IF skip THEN "skipped"
                     ELSE IF failAt = 0 THEN "written" ELSE "failed"
        /\ written' = IF skip THEN <<>> ELSE RowsWritten(rows, failAt)
        /\ diag' = printed \cup UpdatePrinted(skip, failAt) \cup ReportPrinted(records)

\* main() on the page page_data, the write failing at step failAt (0: no
\* failure); the key sets are iterated in any order
Run(page_data, failAt) ==
    \E parsed \in {ParseRun(page_data)} :
    \E loaded \in {LoadStore(dbFile)} :
    \E it \in MatchOrders(parsed.actual, dbFile, loaded.db_data) :
    \E results \in {match_ieee_cs_cfp_information_with_db(
                        parsed.actual, dbFile, loaded.db_data, it)} :
    \E printed \in {parsed.printed \cup MatchPrinted(results, loaded.printed)} :
        /\ page' = page_data
        /\ web_data' = parsed.actual
        /\ db_data' = loaded.db_data
        /\ matching_results' = results
        /\ prevFile' = dbFile
        /\ IF results = None
           THEN \* line 271: None has no items(); the process ends there
                /\ failAt = 0
                /\ pc' = "crashed"
                /\ dbFile' = dbFile
                /\ update' = "none"
                /\ written' = <<>>
                /\ diag' = printed \cup {Traceback}
           ELSE Persist(Get(results), failAt, printed)

\* a run in which no I/O step of the write fails
Main ==
    /\ pc = "idle"
    /\ \E page_data \in Pages : Run(page_data, 0)

\* a run in which a step of the write raises (the disk is full, the file
\* cannot be opened, a value cannot be encoded)
MainWriteFails ==
    /\ pc = "idle"
    /\ \E page_data \in Pages :
          \E failAt \in 1..(2 + MaxPosts) : Run(page_data, failAt)

\* the process is gone: nothing of the run is kept but the store
Exit ==
    /\ pc \in {"exited", "crashed"}
    /\ pc' = "idle"
    /\ page' = <<>>
    /\ web_data' = None
    /\ db_data' = None
    /\ matching_results' = None
    /\ update' = "none"
    /\ written' = <<>>
    /\ prevFile' = None
    /\ diag' = {}
    /\ UNCHANGED dbFile

Next == Main \/ MainWriteFails \/ Exit

Spec == Init /\ [][Next]_vars

(***************************************************************************)
(* The properties.  They are stated on the state a run of main leaves      *)
(* behind (pc is "exited" or "crashed" until the process is gone): the     *)
(* page it fetched, what it parsed, loaded and classified, the rows it     *)
(* wrote, what it printed, and the store before and after.                 *)
(***************************************************************************)
Range(s) == {s[i] : i \in 1..Len(s)}

\* the records of one status in the run's results (None holds no record)
Bucket(status) ==
    IF Get(matching_results)[status] = None THEN <<>>
    ELSE Get(Get(matching_results)[status])

\* the list holds exactly the records of the set, each once
ListsExactly(list, S) == Range(list) = S /\ Len(list) = Cardinality(S)

\* the prior snapshot of the run, a missing store file counting as the empty one
PriorSnapshot == IF db_data = None THEN <<>> ELSE Get(db_data)

\* the record rows of a file that has its header row
RecordRows(file) == SubSeq(Get(file), 2, Len(Get(file)))

\* the records of the completed writerow calls
WrittenRecords == [i \in 1..Len(written) |-> written[i].record]

\* C1: whenever match_ieee_cs_cfp_information_with_db returns its result for a
\* fresh map and a prior snapshot, NEW holds exactly the fresh records whose
\* key is not in prior, DELETED exactly the prior records whose key is not in
\* fresh, UNMODIFIED exactly the records of the keys in both whose fresh and
\* prior records are equal, and UPDATED the fresh records of the other keys in
\* both; each key of the union is in exactly one bucket, and with an empty
\* prior all fresh records are NEW and nothing else is classified.
C1_Classification ==
    matching_results # None =>
        LET fresh == Get(web_data)
            prior == PriorSnapshot
            both == DictKeys(fresh) \cap DictKeys(prior)
            same == {key \in both : DictGet(fresh, key) = DictGet(prior, key)}
        IN  /\ ListsExactly(Bucket(StNEW),
                    {DictGet(fresh, key) : key \in DictKeys(fresh) \ DictKeys(prior)})
            /\ ListsExactly(Bucket(StDELETED),
                    {DictGet(prior, key) : key \in DictKeys(prior) \ DictKeys(fresh)})
            /\ ListsExactly(Bucket(StUNMODIFIED),
                    {DictGet(fresh, key) : key \in same})
            /\ ListsExactly(Bucket(StUPDATED),
                    {DictGet(fresh, key) : key \in both \ same})
            /\ Len(Bucket(StNEW)) + Len(Bucket(StDELETED))
                   + Len(Bucket(StUNMODIFIED)) + Len(Bucket(StUPDATED))
               = Cardinality(DictKeys(fresh) \cup DictKeys(prior))
            /\ Len(prior) = 0 =>
                   /\ Len(Bucket(StNEW)) = Len(fresh)
                   /\ Len(Bucket(StDELETED)) = 0
                   /\ Len(Bucket(StUNMODIFIED)) = 0
                   /\ Len(Bucket(StUPDATED)) = 0

\* a run against an existing store that classified records into all four buckets
C1_AllFourBuckets ==
    /\ matching_results # None
    /\ prevFile # None
    /\ \A status \in DbRecordStatus : Len(Bucket(status)) > 0

\* the place of a status group in a written file
GroupRank(status) ==
    CASE status = StNEW -> 1 [] status = StUPDATED -> 2 [] status = StUNMODIFIED -> 3

\* C4: in every file update_db_info writes, the record rows come by status
\* group NEW, UPDATED, UNMODIFIED, and inside a group by deadline ascending,
\* the records without a deadline after all those that have one.
C4_OutputOrdering ==
    update \in {"written", "failed"} =>
        /\ (update = "written" \/ Len(written) > 0) =>
               /\ dbFile # None
               /\ Get(dbFile)[1] = HeaderRow
               /\ RecordRows(dbFile) = [i \in 1..Len(written) |-> WriteRow(written[i].record)]
        /\ \A i, j \in 1..Len(written) :
               i < j =>
                 /\ GroupRank(written[i].status) <= GroupRank(written[j].status)
                 /\ written[i].status = written[j].status =>
                      /\ written[i].record.Deadline = None
                            => written[j].record.Deadline = None
                      /\ (written[i].record.Deadline # None
                            /\ written[j].record.Deadline # None)
                            => ~DateLess(written[j].record.Deadline,
                                         written[i].record.Deadline)

\* a complete write of two NEW records and an UNMODIFIED one, where the NEW
\* record without a deadline came first in its bucket and is written second
C4_SortedGroups ==
    /\ update = "written"
    /\ Len(written) = 3
    /\ written[1].status = StNEW /\ written[2].status = StNEW
    /\ written[3].status = StUNMODIFIED
    /\ written[1].record.Deadline # None
    /\ written[2].record.Deadline = None
    /\ Bucket(StNEW) = <<written[2].record, written[1].record>>

\* the fresh observation set has the same content as the persisted snapshot:
\* the store the run started with holds the header row and, as its record
\* rows, the rows of the fresh records
FreshSameAsPersisted ==
    /\ web_data # None
    /\ prevFile # None
    /\ Len(Get(prevFile)) = 1 + Len(Get(web_data))
    /\ Get(prevFile)[1] = HeaderRow
    /\ Range(RecordRows(prevFile))
           = {WriteRow(record) : record \in Range(DictValues(Get(web_data)))}

\* C2: a run whose fresh observation set has the same content as the
\* persisted snapshot classifies every record UNMODIFIED, performs no write,
\* and leaves the store file as it was.
C2_SkipWriteIdempotence ==
    (pc # "idle" /\ FreshSameAsPersisted) =>
        /\ matching_results # None
        /\ Len(Bucket(StUNMODIFIED)) = Len(Get(web_data))
        /\ Len(Bucket(StNEW)) = 0
        /\ Len(Bucket(StUPDATED)) = 0
        /\ Len(Bucket(StDELETED)) = 0
        /\ update = "skipped"
        /\ dbFile = prevFile

\* C3: whenever update_db_info writes the store, the record rows of the file
\* are exactly the NEW, UPDATED and UNMODIFIED records of the run, each once,
\* no DELETED record is among them, and no key classified DELETED is a key of
\* the snapshot the file holds after the run.
C3_PersistedSnapshot ==
    update = "written" =>
        /\ Get(dbFile)[1] = HeaderRow
        /\ RecordRows(dbFile) = [i \in 1..Len(written) |-> WriteRow(written[i].record)]
        /\ ListsExactly(WrittenRecords,
                Range(Bucket(StNEW)) \cup Range(Bucket(StUPDATED))
                    \cup Range(Bucket(StUNMODIFIED)))
        /\ Range(Bucket(StDELETED)) \cap Range(WrittenRecords) = {}
        /\ (DictKeys(PriorSnapshot) \ DictKeys(Get(web_data)))
               \cap DictKeys(Get(PriorOf(dbFile))) = {}

\* C5: when a step of the write fails, the store is either the complete new
\* snapshot or the file the run started with.
C5_SaveAllOrNothing ==
    update = "failed" =>
        \/ dbFile = prevFile
        \/ dbFile = update_db_info(prevFile, Get(matching_results), 0)

\* C6: when the store file exists and loading it fails, the run takes the
\* prior snapshot as empty, classifies every fresh record NEW and goes on to
\* the write and the reports.
C6_LoadFailureResyncs ==
    (pc # "idle" /\ prevFile # None /\ db_data = None /\ web_data # None) =>
        /\ pc = "exited"
        /\ matching_results # None
        /\ ListsExactly(Bucket(StNEW), Range(DictValues(Get(web_data))))
        /\ Len(Bucket(StUPDATED)) = 0
        /\ Len(Bucket(StUNMODIFIED)) = 0
        /\ Len(Bucket(StDELETED)) = 0

\* C7: a fresh observation for which create_composite_key returns no key is
\* left out of the fresh mapping, of every bucket and of the store.
C7_KeylessRecordDropped ==
    pc = "exited" =>
        \A i \in 1..Len(page) :
            ContainerKey(page[i]) = None =>
                /\ None \notin DictKeys(Get(web_data))
                /\ \A status \in DbRecordStatus :
                       ContainerData(page[i]) \notin Range(Bucket(status))
                /\ ContainerData(page[i]) \notin Range(WrittenRecords)

\* the reports main prints on every run that classified something
RoutineReports == {StatusCount, Added, Deleted}

\* C8: a run whose fresh observation set is empty or null while the prior
\* snapshot is not, and which classifies every prior record DELETED and
\* overwrites the store with the empty snapshot, has printed something other
\* than the routine reports: a signal that its input was degraded.
C8_NoSilentMassDeletion ==
    (/\ pc # "idle"
     /\ (web_data = None \/ Len(Get(web_data)) = 0)
     /\ db_data # None /\ Len(Get(db_data)) > 0
     /\ matching_results # None
     /\ Len(Bucket(StDELETED)) = Len(Get(db_data))
     /\ update = "written"
     /\ dbFile = Some(<<HeaderRow>>))
    => diag \ RoutineReports # {}

\* C9: for every fresh record that has a key and that a run persists, the key
\* computed for its row as the next run loads it is the key it was observed
\* under.
C9_KeyRoundTrip ==
    update = "written" =>
        \A i \in 1..Len(Get(web_data)) :
            Get(web_data)[i].key # None =>
                RowKey(WriteRow(Get(web_data)[i].data)) = Get(web_data)[i].key

\* C10: a run on a page with an observation whose deadline text is not a
\* date keeps that record, with no deadline, and is otherwise processed as
\* usual: the fresh mapping exists and the run reaches its end.
C10_BadDeadlineIsAbsent ==
    pc # "idle" =>
        \A i \in 1..Len(page) :
            ContainerRaises(page[i]) =>
                /\ web_data # None
                /\ \E j \in 1..Len(Get(web_data)) :
                       /\ Get(web_data)[j].data.Title = MEDIA_TITLE_TEXT(page[i].titleText)
                       /\ Get(web_data)[j].data.Deadline = None
                /\ pc = "exited"

====
